---- MODULE Spec2Model ----
(***************************************************************************)
(* go-pkgz/testutils: stdout/stderr capture (capture.go).                  *)
(*                                                                         *)
(* A capture call saves the process-wide stream variable, creates a pipe,  *)
(* points the stream at the pipe's write end, starts a goroutine that      *)
(* copies the pipe into a buffer, runs the action, closes the write end,   *)
(* waits for the copy and returns the buffer; a deferred function puts     *)
(* the stream variable back.                                               *)
(***************************************************************************)
EXTENDS Integers, Sequences, FiniteSets, TLC

\* ---------------------------------------------------------------- bounds
PipeCap    == 1    \* bytes a pipe holds before a writer blocks
MaxWrites  == 2    \* writes the action's own goroutine makes in one call
NWriters   == 2    \* goroutines an action starts, one line each
MaxPipes   == 2    \* pipes created in one run

\* ---------------------------------------------------------------- values
Calls    == {1, 2}                 \* test goroutines calling capture functions
Stream   == {"out", "err"}         \* os.Stdout, os.Stderr
Kinds    == {"stdout", "stderr", "both"}
CopyBuf  == PipeCap + 1            \* io.Copy reads whatever the pipe holds

\* A file is an integer: a pipe's write end is the pipe's index in `pipes`,
\* the original destinations are negative, no file is 0.
NoFile       == 0
Orig(s)      == IF s = "out" THEN 0 - 1 ELSE 0 - 2
IsPipe(f)    == f > 0

\* what one write of the action holds: nothing, a zero byte, a byte >= 0x80,
\* and two-byte chunks (longer than a pipe of one byte) with a zero byte in
\* either position
Chunks         == {<<>>, <<0>>, <<255>>, <<0, 255>>, <<255, 0>>}
\* the distinct line writer tid prints: a letter and a newline
Line(tid)      == <<64 + tid, 10>>

Min(a, b) == IF a < b THEN a ELSE b

\* the streams a capture function redirects, in the order of its statements
Captured(k) == CASE k = "stdout" -> <<"out">>
                 [] k = "stderr" -> <<"err">>
                 [] k = "both"   -> <<"out", "err">>
                 [] OTHER        -> <<>>
CapturedSet(k) == {Captured(k)[i] : i \in 1..Len(Captured(k))}

VARIABLES
  osStd,     \* osStd[s]: the file os.Stdout / os.Stderr refers to
  pipes,     \* sequence of pipes: data in flight, write end closed, drain state
  pc,        \* pc[c] = [step, i]: statement of the capture function, stream index
  kind,      \* which capture function call c runs
  old,       \* old[c][s]: the saved stream (old, oldout, olderr)
  rw,        \* rw[c][s]: the pipe (r, w) call c created for stream s
  buf,       \* buf[c][s]: bytes.Buffer the drain copies into
  wg,        \* wg[c]: sync.WaitGroup counter
  thr,       \* thr[c][tid]: goroutines of the action; 0 is the action itself
  nw,        \* number of writes the action itself has made
  wrote,     \* history: bytes the action wrote to stream s, in write order
  result,    \* result[c][s]: the returned text
  failed,    \* failed[c]: t.Errorf / t.Fatal marked the test failed
  pre,       \* history: osStd when the call began
  called,    \* history: the action f was invoked
  \* --- the request captor (http_utils.go)
  captor,    \* the RequestCaptor: its requests slice, its mutex, the next handler
  heap,      \* backing arrays of []RequestRecord slices
  hs,        \* hs[h]: a goroutine of the HTTP server running the handler
  snap,      \* the slice a GetRequests call returned to the test
  served,    \* history: the requests recorded since the captor was made or Reset
  obs,       \* what the last Len / GetRequest / GetRequests call returned
  \* --- a test with cleanups (http_utils.go, file_utils.go)
  tst,       \* the *testing.T: phase, registered cleanups, failed
  servers,   \* httptest servers: listening or closed
  fs,        \* temporary directories and the files in them
  wtf,       \* WriteTestFile calls: statement reached, content, returned path
  \* --- the Mongo test container (containers/mongo.go)
  env,       \* the MONGO_TEST environment variable
  mongo,     \* mongo[m]: a MongoTestContainer and the call working on it
  db,        \* db[k]: the Postgres and the MySQL test container
  \* --- the capture functions of the variant implementation
  vstd,      \* vstd[s]: the *os.File that os.Stdout / os.Stderr points to
  vfile,     \* vfile[o]: the file the os.File value o refers to
  vpipes,    \* the pipes the variant's calls made
  vcall      \* the capture call of the test goroutine

capVars  == <<osStd, pipes, pc, kind, old, rw, buf, wg, thr, nw, wrote, result, failed, pre,
              called>>
httpVars == <<captor, heap, hs, snap, served, obs>>
lifeVars == <<tst, servers, fs, wtf>>
envVars  == <<env, mongo, db>>
variantVars == <<vstd, vfile, vpipes, vcall>>
ext      == <<httpVars, lifeVars, envVars, variantVars>>
vars     == <<capVars, ext>>

osStdout == osStd["out"]
osStderr == osStd["err"]

Tids      == 0..NWriters
NoStreams == [s \in Stream |-> NoFile]
NoBytes   == [s \in Stream |-> <<>>]
IdleThr   == [st |-> "off", p |-> NoFile, rem |-> <<>>, s |-> "out"]
IdlePc    == [step |-> "idle", i |-> 1]

\* ------------------------------------------- values of the other helpers
Handlers   == {1, 2}               \* server goroutines running the handler
Containers == {1, 2}               \* Mongo test containers

\* RequestRecord{}: the zero record
ZeroRecord == [Method |-> "", Path |-> "", Headers |-> <<>>, Body |-> <<>>]
\* a nil slice, and the empty slice []RequestRecord{}: no backing array
NilSlice   == [arr |-> 0, len |-> 0, cap |-> 0]
IdleHandler ==
  [pc |-> "idle", req |-> 0, record |-> ZeroRecord, stream |-> <<>>, hasBody |-> FALSE,
   tmp |-> NilSlice, seen |-> <<>>, fwd |-> FALSE]

\* no WriteTestFile call in progress
NoWrite == [pc |-> "none", dir |-> 0, content |-> <<>>]

\* MONGO_TEST as the process sees it; no container created yet
Unset == [set |-> FALSE, val |-> ""]
NoContainer ==
  [pc |-> "none", origURL |-> "", uri |-> "", running |-> FALSE, connected |-> FALSE,
   terminates |-> 0, ret |-> "none", before |-> Unset]

\* the SQL test containers: none created yet
DbKinds == {"postgres", "mysql"}
NoDb == [pc |-> "none", running |-> FALSE, terminates |-> 0, ret |-> "none"]

\* ---- the variant implementation: os.File values and what they refer to
\* the os.File values the process starts with, one per stream
StdObj(s) == IF s = "out" THEN 1 ELSE 2
\* the os.File value of the write end of pipe p
WObj(p) == 2 + p
NoVCall ==
  [step |-> "idle", kind |-> "none", i |-> 1, out |-> 0, old |-> NoStreams, w |-> NoStreams,
   rem |-> <<>>, remp |-> NoFile, nw |-> 0, buf |-> <<>>,
   result |-> NoBytes, gap |-> FALSE, pre |-> NoStreams]
VariantInit ==
  /\ vstd   = [s \in Stream |-> StdObj(s)]
  /\ vfile  = <<Orig("out"), Orig("err")>>
  /\ vpipes = <<>>
  /\ vcall  = NoVCall

HttpInit ==
  /\ captor = [made |-> FALSE, requests |-> NilSlice, mu |-> 0, next |-> FALSE]
  /\ heap   = <<>>
  /\ hs     = [h \in Handlers |-> IdleHandler]
  /\ snap   = [taken |-> FALSE, sl |-> NilSlice]
  /\ served = [log |-> <<>>, total |-> 0]
  /\ obs    = [op |-> "none", idx |-> 0, rec |-> ZeroRecord, ok |-> FALSE, n |-> 0]

LifeInit ==
  /\ tst     = [phase |-> "running", cleanups |-> <<>>, failed |-> FALSE]
  /\ servers = <<>>
  /\ fs      = <<>>
  /\ wtf     = NoWrite

EnvInit ==
  /\ env   = Unset
  /\ mongo = [m \in Containers |-> NoContainer]
  /\ db    = [k \in DbKinds |-> NoDb]

ExtInit == HttpInit /\ LifeInit /\ EnvInit /\ VariantInit

Init ==
  /\ osStd  = [s \in Stream |-> Orig(s)]
  /\ pipes  = <<>>
  /\ pc     = [c \in Calls |-> IdlePc]
  /\ kind   = [c \in Calls |-> "none"]
  /\ old    = [c \in Calls |-> NoStreams]
  /\ rw     = [c \in Calls |-> NoStreams]
  /\ buf    = [c \in Calls |-> NoBytes]
  /\ wg     = [c \in Calls |-> 0]
  /\ thr    = [c \in Calls |-> [t \in Tids |-> IdleThr]]
  /\ nw     = [c \in Calls |-> 0]
  /\ wrote  = [c \in Calls |-> NoBytes]
  /\ result = [c \in Calls |-> NoBytes]
  /\ failed = [c \in Calls |-> FALSE]
  /\ pre    = [c \in Calls |-> NoStreams]
  /\ called = [c \in Calls |-> FALSE]
  /\ ExtInit

\* ------------------------------------------------------- control helpers
At(c, step) == pc[c].step = step
\* the stream the current statement of call c is about
CurS(c)     == Captured(kind[c])[pc[c].i]
\* after the statement for the last captured stream, go on to step nxt
Advance(c, nxt) ==
  IF pc[c].i < Len(Captured(kind[c]))
    THEN [pc EXCEPT ![c].i = @ + 1]
    ELSE [pc EXCEPT ![c] = [step |-> nxt, i |-> 1]]

\* faulty variant: the text ends at the first zero byte, as a C string would
BufStringCut(b) ==
  LET z == {i \in 1..Len(b) : b[i] = 0}
  IN  IF z = {} THEN b ELSE SubSeq(b, 1, (CHOOSE i \in z : \A j \in z : i <= j) - 1)
\* bytes.Buffer.String(): the buffer's bytes, one for one
BufString(b) == [i \in 1..Len(b) |-> b[i]]

\* ------------------------------------------------------ the capture call
\* old := os.Stdout  (oldout, olderr := os.Stdout, os.Stderr)
Begin(c, k) ==
  /\ At(c, "idle")
  /\ Len(pipes) + Len(Captured(k)) <= MaxPipes
  /\ kind' = [kind EXCEPT ![c] = k]
  /\ old'  = [old EXCEPT ![c] = [s \in Stream |-> IF s \in CapturedSet(k) THEN osStd[s] ELSE NoFile]]
  /\ pre'  = [pre EXCEPT ![c] = osStd]
  /\ pc'   = [pc EXCEPT ![c] = [step |-> "pipe", i |-> 1]]
  /\ UNCHANGED <<osStd, pipes, rw, buf, wg, thr, nw, wrote, result, failed, called, ext>>

\* faulty variant: the stream is redirected as soon as its pipe exists, before
\* the other pipe has been created
PipeOKRedirects(c) ==
  /\ At(c, "pipe")
  /\ pipes' = Append(pipes, [data |-> <<>>, wclosed |-> FALSE, drain |-> "none",
                             owner |-> c, s |-> CurS(c)])
  /\ rw'    = [rw EXCEPT ![c][CurS(c)] = Len(pipes) + 1]
  /\ osStd' = [osStd EXCEPT ![CurS(c)] = Len(pipes) + 1]
  /\ pc'    = Advance(c, "redirect")
  /\ UNCHANGED <<kind, old, buf, wg, thr, nw, wrote, result, failed, pre, called, ext>>

\* r, w, err := os.Pipe() with err == nil
PipeOK(c) ==
  /\ At(c, "pipe")
  /\ pipes' = Append(pipes, [data |-> <<>>, wclosed |-> FALSE, drain |-> "none",
                             owner |-> c, s |-> CurS(c)])
  /\ rw'    = [rw EXCEPT ![c][CurS(c)] = Len(pipes) + 1]
  /\ pc'    = Advance(c, "redirect")
  /\ UNCHANGED <<osStd, kind, old, buf, wg, thr, nw, wrote, result, failed, pre, called, ext>>

\* os.Pipe() fails: t.Fatal(err) ends the test goroutine
PipeFail(c) ==
  /\ At(c, "pipe")
  /\ failed' = [failed EXCEPT ![c] = TRUE]
  /\ pc'     = [pc EXCEPT ![c] = [step |-> "fatal", i |-> 1]]
  /\ UNCHANGED <<osStd, pipes, kind, old, rw, buf, wg, thr, nw, wrote, result, pre, called, ext>>

\* os.Stdout = w
Redirect(c) ==
  /\ At(c, "redirect")
  /\ osStd' = [osStd EXCEPT ![CurS(c)] = rw[c][CurS(c)]]
  /\ pc'    = Advance(c, "add")
  /\ UNCHANGED <<pipes, kind, old, rw, buf, wg, thr, nw, wrote, result, failed, pre, called, ext>>

\* wg.Add(1)  (wg.Add(2))
WgAdd(c) ==
  /\ At(c, "add")
  /\ wg' = [wg EXCEPT ![c] = @ + Len(Captured(kind[c]))]
  /\ pc' = [pc EXCEPT ![c] = [step |-> "go", i |-> 1]]
  /\ UNCHANGED <<osStd, pipes, kind, old, rw, buf, thr, nw, wrote, result, failed, pre, called, ext>>

\* go func() { defer wg.Done(); io.Copy(&buf, r) ... }()
GoDrain(c) ==
  /\ At(c, "go")
  /\ pipes' = [pipes EXCEPT ![rw[c][CurS(c)]].drain = "running"]
  /\ pc'    = Advance(c, "f")
  /\ thr'    = IF pc'[c].step = "f" THEN [thr EXCEPT ![c][0].st = "idle"] ELSE thr
  /\ called' = IF pc'[c].step = "f" THEN [called EXCEPT ![c] = TRUE] ELSE called
  /\ UNCHANGED <<osStd, kind, old, rw, buf, wg, nw, wrote, result, failed, pre, ext>>

\* ------------------------------------------------- writes to a stream
\* the state a goroutine is in once its write has returned
AfterWrite(tid) == IF tid = 0 THEN "idle" ELSE "done"

\* a write on an *os.File holds the file's write lock until it has returned
WriteLockFree(f) ==
  \A c \in Calls, t \in Tids : ~(thr[c][t].st = "writing" /\ thr[c][t].p = f)

\* os.Stdout.Write(chunk) / fmt.Fprintln(os.Stdout, ...): the stream variable is
\* read when the call is made; a write to a pipe goes on until every byte is in
\* the pipe, a write to a closed write end fails, a write to the original
\* destination returns at once
AcceptsClosed(f) == IsPipe(f)
\* a write to f enters a pipe: f is a pipe's write end and is not closed
Accepts(f) == IsPipe(f) /\ ~pipes[f].wclosed
DoWrite(c, tid, s, chunk) ==
  LET f == osStd[s] IN
  /\ wrote' = [wrote EXCEPT ![c][s] = @ \o chunk]
  /\ IF Accepts(f) /\ chunk # <<>>
       THEN /\ WriteLockFree(f)
            /\ thr' = [thr EXCEPT ![c][tid] =
                         [st |-> "writing", p |-> f, rem |-> chunk, s |-> s]]
       ELSE thr' = [thr EXCEPT ![c][tid] =
                         [st |-> AfterWrite(tid), p |-> f, rem |-> <<>>, s |-> s]]

\* the blocked write moves as many bytes as the pipe has room for
WriteStep(c, tid) ==
  LET p == thr[c][tid].p
      r == thr[c][tid].rem
      n == Min(PipeCap - Len(pipes[p].data), Len(r))
  IN
  /\ thr[c][tid].st = "writing"
  /\ IF ~Accepts(p)
       THEN /\ thr' = [thr EXCEPT ![c][tid].st = AfterWrite(tid), ![c][tid].rem = <<>>]
            /\ pipes' = pipes
       ELSE /\ n > 0
            /\ pipes' = [pipes EXCEPT ![p].data = @ \o SubSeq(r, 1, n)]
            /\ thr' = [thr EXCEPT ![c][tid].rem = SubSeq(r, n + 1, Len(r)),
                                  ![c][tid].st  = IF n = Len(r) THEN AfterWrite(tid)
                                                                ELSE "writing"]
  /\ UNCHANGED <<osStd, pc, kind, old, rw, buf, wg, nw, wrote, result, failed, pre, called, ext>>

\* ------------------------------------------------------------ the action
\* f() writes a chunk to a stream from its own goroutine
ActWrite(c, s, chunk) ==
  /\ At(c, "f")
  /\ thr[c][0].st = "idle"
  /\ nw[c] < MaxWrites
  /\ \A t \in Tids \ {0} : thr[c][t].st = "off"
  /\ DoWrite(c, 0, s, chunk)
  /\ nw' = [nw EXCEPT ![c] = @ + 1]
  /\ UNCHANGED <<osStd, pipes, pc, kind, old, rw, buf, wg, result, failed, pre, called, ext>>

\* f() starts NWriters goroutines: go func() { defer wg.Done(); fmt.Fprintln(...) }()
ActSpawn(c) ==
  /\ At(c, "f")
  /\ thr[c][0].st = "idle"
  /\ NWriters > 0
  /\ nw[c] = 0
  /\ \A t \in Tids \ {0} : thr[c][t].st = "off"
  /\ thr' = [thr EXCEPT ![c] = [t \in Tids |->
                IF t = 0 THEN thr[c][0] ELSE [IdleThr EXCEPT !.st = "ready"]]]
  /\ UNCHANGED <<osStd, pipes, pc, kind, old, rw, buf, wg, nw, wrote, result, failed, pre, called, ext>>

\* a started goroutine prints its line with one write
WriterWrite(c, tid, s) ==
  /\ tid # 0
  /\ thr[c][tid].st = "ready"
  /\ DoWrite(c, tid, s, Line(tid))
  /\ UNCHANGED <<osStd, pipes, pc, kind, old, rw, buf, wg, nw, result, failed, pre, called, ext>>

\* f() returns, after wg.Wait() for the goroutines it started
ActReturn(c) ==
  /\ At(c, "f")
  /\ thr[c][0].st = "idle"
  /\ \A t \in Tids \ {0} : thr[c][t].st \in {"off", "done"}
  /\ pc'  = [pc EXCEPT ![c] = [step |-> "close", i |-> 1]]
  /\ thr' = [thr EXCEPT ![c][0].st = "off"]
  /\ UNCHANGED <<osStd, pipes, kind, old, rw, buf, wg, nw, wrote, result, failed, pre, called, ext>>

\* f() panics: the deferred function runs, then the panic goes on to the caller
ActPanic(c) ==
  /\ At(c, "f")
  /\ thr[c][0].st = "idle"
  /\ \A t \in Tids \ {0} : thr[c][t].st \in {"off", "done"}
  /\ pc'  = [pc EXCEPT ![c] = [step |-> "unwind", i |-> 1]]
  /\ thr' = [thr EXCEPT ![c][0].st = "off"]
  /\ UNCHANGED <<osStd, pipes, kind, old, rw, buf, wg, nw, wrote, result, failed, pre, called, ext>>

\* ------------------------------------------------------ after the action
\* _ = w.Close()
Close(c) ==
  /\ At(c, "close")
  /\ pipes' = [pipes EXCEPT ![rw[c][CurS(c)]].wclosed = TRUE]
  /\ pc'    = Advance(c, "wait")
  /\ UNCHANGED <<osStd, kind, old, rw, buf, wg, thr, nw, wrote, result, failed, pre, called, ext>>

\* faulty variant: the call does not wait for the drain
WaitSkipped(c) == TRUE
\* wg.Wait() returns when the counter is zero
WaitReady(c) == wg[c] = 0

Wait(c) ==
  /\ At(c, "wait")
  /\ WaitReady(c)
  /\ pc' = [pc EXCEPT ![c] = [step |-> "ret", i |-> 1]]
  /\ UNCHANGED <<osStd, pipes, kind, old, rw, buf, wg, thr, nw, wrote, result, failed, pre, called, ext>>

\* return buf.String()  (return outBuf.String(), errBuf.String())
Return(c) ==
  /\ At(c, "ret")
  /\ result' = [result EXCEPT ![c] = [s \in Stream |->
                   IF s \in CapturedSet(kind[c]) THEN BufString(buf[c][s]) ELSE <<>>]]
  /\ pc' = [pc EXCEPT ![c] = [step |-> "restore", i |-> 1]]
  /\ UNCHANGED <<osStd, pipes, kind, old, rw, buf, wg, thr, nw, wrote, failed, pre, called, ext>>

\* faulty variants: the dual capture forgets os.Stderr; the assignment is not
\* deferred and is skipped by a panic; the stream is set to the process's
\* original destination instead of the saved one
RestoreValueStdoutOnly(c, s) == IF s = "err" /\ kind[c] = "both" THEN osStd[s] ELSE old[c][s]
RestoreValueNotDeferred(c, s) == IF At(c, "unwind") THEN osStd[s] ELSE old[c][s]
RestoreValueOriginal(c, s) == Orig(s)
\* faulty variant: the stream is left as the call finds it at its end
RestoreValueKept(c, s) == osStd[s]
\* the value the deferred function assigns: os.Stdout = old
RestoreValue(c, s) == old[c][s]

\* faulty variant: the deferred function recovers and the call returns
UnwindEndRecovered(c) == "returned"
\* the deferred function does not recover(): once it has run, a panic of the
\* action goes on to the caller
UnwindEnd(c) == "panicked"

\* defer func() { os.Stdout = old }(), on return and on panic
Restore(c) ==
  /\ At(c, "restore") \/ At(c, "unwind")
  /\ osStd' = [osStd EXCEPT ![CurS(c)] = RestoreValue(c, CurS(c))]
  /\ pc'    = Advance(c, IF At(c, "restore") THEN "returned" ELSE UnwindEnd(c))
  /\ UNCHANGED <<pipes, kind, old, rw, buf, wg, thr, nw, wrote, result, failed, pre, called, ext>>

Ended(c) == pc[c].step \in {"returned", "panicked", "fatal"}
Quiet(c) == \A t \in Tids : thr[c][t].st \in {"off", "done"}

\* the test that made the call is over; the goroutine runs the next test.
\* A drain the call left behind (after a panic) goes on reading its pipe; what it
\* reads is seen by nobody, and the next test is taken to begin once it has
\* read what the pipe held. The pipes of the call stay, owned by no call.
Finish(c) ==
  /\ Ended(c)
  /\ Quiet(c)
  /\ \A p \in 1..Len(pipes) : pipes[p].owner = c /\ pipes[p].drain = "running" => pipes[p].data = <<>>
  /\ pc'     = [pc EXCEPT ![c] = IdlePc]
  /\ kind'   = [kind EXCEPT ![c] = "none"]
  /\ old'    = [old EXCEPT ![c] = NoStreams]
  /\ rw'     = [rw EXCEPT ![c] = NoStreams]
  /\ buf'    = [buf EXCEPT ![c] = NoBytes]
  /\ wg'     = [wg EXCEPT ![c] = 0]
  /\ thr'    = [thr EXCEPT ![c] = [t \in Tids |-> IdleThr]]
  /\ nw'     = [nw EXCEPT ![c] = 0]
  /\ wrote'  = [wrote EXCEPT ![c] = NoBytes]
  /\ result' = [result EXCEPT ![c] = NoBytes]
  /\ failed' = [failed EXCEPT ![c] = FALSE]
  /\ pre'    = [pre EXCEPT ![c] = NoStreams]
  /\ pipes'  = [p \in 1..Len(pipes) |->
                  IF pipes[p].owner = c THEN [pipes[p] EXCEPT !.owner = 0] ELSE pipes[p]]
  /\ called' = [called EXCEPT ![c] = FALSE]
  /\ UNCHANGED <<osStd, ext>>

\* ------------------------------------------------------ the drain goroutine
\* faulty variant: the pipe is read only after its write end is closed
CanReadOnceClosed(p) == pipes[p].drain = "running" /\ pipes[p].wclosed
\* io.Copy reads from the moment its goroutine runs, while the action writes
CanRead(p) == pipes[p].drain = "running"

\* faulty variant: both drains copy into outBuf
DrainTargetOut(p) == "out"
\* the buffer a drain copies into: outBuf for rOut, errBuf for rErr
DrainTarget(p) == pipes[p].s

\* io.Copy: one Read of what the pipe holds, appended to the buffer
DrainRead(p) ==
  LET o == pipes[p].owner
      n == Min(Len(pipes[p].data), CopyBuf)
  IN
  /\ CanRead(p)
  /\ n > 0
  /\ pipes' = [pipes EXCEPT ![p].data = SubSeq(@, n + 1, Len(@))]
  /\ buf'   = IF o = 0 THEN buf
              ELSE [buf EXCEPT ![o][DrainTarget(p)] = @ \o SubSeq(pipes[p].data, 1, n)]
  /\ UNCHANGED <<osStd, pc, kind, old, rw, wg, thr, nw, wrote, result, failed, pre, called, ext>>

\* Read returns io.EOF: the pipe is empty and its write end is closed;
\* io.Copy returns nil and the deferred wg.Done() runs
AtEOFWhenEmpty(p) == pipes[p].data = <<>>
AtEOF(p) == pipes[p].data = <<>> /\ pipes[p].wclosed
DrainEOF(p) ==
  LET o == pipes[p].owner IN
  /\ pipes[p].drain = "running"
  /\ AtEOF(p)
  /\ pipes' = [pipes EXCEPT ![p].drain = "done"]
  /\ wg'    = IF o = 0 THEN wg ELSE [wg EXCEPT ![o] = @ - 1]
  /\ UNCHANGED <<osStd, pc, kind, old, rw, buf, thr, nw, wrote, result, failed, pre, called, ext>>

\* faulty variant: the read error is dropped
ReportDropped(o) == failed
\* t.Errorf("failed to read captured stdout: %v", err) marks the test failed
Report(o) == [failed EXCEPT ![o] = TRUE]

\* Read fails with another error: t.Errorf, then the deferred wg.Done()
DrainErr(p) ==
  LET o == pipes[p].owner IN
  /\ pipes[p].drain = "running"
  /\ pipes' = [pipes EXCEPT ![p].drain = "failed"]
  /\ wg'     = IF o = 0 THEN wg ELSE [wg EXCEPT ![o] = @ - 1]
  /\ failed' = IF o = 0 THEN failed ELSE Report(o)
  /\ UNCHANGED <<osStd, pc, kind, old, rw, buf, thr, nw, wrote, result, pre, called, ext>>

\* ------------------------------------------------------- specifications
\* the statements of a capture function before and after the action
Setup(c, K) ==
  \/ \E k \in K : Begin(c, k)
  \/ PipeOK(c)
  \/ PipeFail(c)
  \/ Redirect(c)
  \/ WgAdd(c)
  \/ GoDrain(c)

Teardown(c) ==
  \/ Close(c)
  \/ Wait(c)
  \/ Return(c)
  \/ Restore(c)

\* an action that writes from its own goroutine, then returns or panics
SeqAction(c, D) ==
  \/ \E s \in Stream, ch \in D : ActWrite(c, s, ch)
  \/ WriteStep(c, 0)
  \/ ActReturn(c)
  \/ ActPanic(c)

\* an action that starts goroutines which each print a line, and waits for them
ParAction(c) ==
  \/ ActSpawn(c)
  \/ \E t \in Tids \ {0}, s \in Stream : WriterWrite(c, t, s)
  \/ \E t \in Tids \ {0} : WriteStep(c, t)
  \/ ActReturn(c)
  \/ ActPanic(c)

\* io.Copy when no read fails
Drain ==
  \E p \in 1..Len(pipes) : DrainRead(p) \/ DrainEOF(p)

\* one test goroutine making one capture call after another: the calls never
\* overlap, no read of a pipe fails
Next == Setup(1, Kinds) \/ SeqAction(1, Chunks) \/ Teardown(1) \/ Finish(1) \/ Drain
Spec == Init /\ [][Next]_vars

\* one capture call under the Go scheduler: every goroutine that can run does
\* run, and the action comes to its end
CallNext == Setup(1, Kinds) \/ SeqAction(1, Chunks) \/ Teardown(1) \/ Drain
FairSpec ==
  /\ Init /\ [][CallNext]_vars
  /\ WF_vars(PipeOK(1) \/ PipeFail(1) \/ Redirect(1) \/ WgAdd(1) \/ GoDrain(1))
  /\ WF_vars(WriteStep(1, 0))
  /\ WF_vars(ActReturn(1) \/ ActPanic(1))
  /\ WF_vars(Teardown(1))
  /\ WF_vars(Drain)

\* one capture call whose action starts parallel writers
WritersNext == Setup(1, Kinds) \/ ParAction(1) \/ Teardown(1) \/ Finish(1) \/ Drain
WritersSpec == Init /\ [][WritersNext]_vars

\* one capture call during which a read of a pipe may fail
FaultNext ==
  \/ CallNext
  \/ \E p \in 1..Len(pipes) : DrainErr(p)
FaultSpec == Init /\ [][FaultNext]_vars

\* two parallel tests that both call CaptureStdout
OverlapChunks == {<<255, 0>>}
OverlapNext ==
  \E c \in Calls :
     Setup(c, {"stdout"}) \/ SeqAction(c, OverlapChunks) \/ Teardown(c) \/ Drain
OverlapSpec == Init /\ [][OverlapNext]_vars

\* --------------------------------------------------------------- claims
\* the call has evaluated its return value
HasResult(c) == pc[c].step \in {"restore", "returned"}
OrigStd      == [s \in Stream |-> Orig(s)]
\* pat occurs in text as a run of consecutive bytes
Contains(text, pat) ==
  \E i \in 0..(Len(text) - Len(pat)) : SubSeq(text, i + 1, i + Len(pat)) = pat

\* C1: CaptureStdout and CaptureStderr return exactly the bytes the action's
\* own goroutine wrote to the captured stream, in the order written (zero
\* bytes, bytes >= 0x80 and writes longer than the pipe included); an action
\* that writes nothing yields the empty text.
C1_ExactCapture ==
  \A c \in Calls :
    HasResult(c) /\ kind[c] \in {"stdout", "stderr"} =>
      LET s == Captured(kind[c])[1] IN
      /\ result[c][s] = wrote[c][s]
      /\ (nw[c] = 0 => result[c][s] = <<>>)

C1_Witness ==
  /\ At(1, "returned")
  /\ kind[1] = "stdout"
  /\ wrote[1]["out"] = <<0, 255, 255, 0>>
  /\ result[1]["out"] = <<0, 255, 255, 0>>

\* C2: when a capture call has returned, os.Stdout and os.Stderr are what they
\* were just before the call, and so, calls never overlapping, the original
\* destinations.
C2_Restored ==
  \A c \in Calls :
    At(c, "returned") => osStd = pre[c] /\ osStdout = Orig("out") /\ osStderr = Orig("err")

C2_Witness ==
  /\ At(1, "returned")
  /\ kind[1] = "stderr"
  /\ Len(pipes) = 2
  /\ pipes[1].owner = 0
  /\ osStd = OrigStd

\* C3: under FairSpec every capture call that has begun comes to its end
\* (returns, passes the panic on, or fails the test on os.Pipe), also when the
\* action writes more bytes than the pipe holds: the drain empties the pipe
\* while the action writes.
C3_Terminates ==
  \A c \in Calls : (pc[c].step # "idle") ~> Ended(c)

C3_Witness ==
  /\ At(1, "returned")
  /\ kind[1] = "both"
  /\ Len(wrote[1]["out"]) > PipeCap
  /\ Len(wrote[1]["err"]) > PipeCap
  /\ result[1] = wrote[1]

\* C4: CaptureStdoutAndStderr returns for each stream exactly the bytes the
\* action wrote to that stream: nothing written to a stream gives the empty
\* text for it, whatever was written to the other.
C4_DualIndependent ==
  \A c \in Calls :
    HasResult(c) /\ kind[c] = "both" =>
      \A s \in Stream : result[c][s] = wrote[c][s]

C4_Witness ==
  /\ At(1, "returned")
  /\ kind[1] = "both"
  /\ wrote[1]["out"] = <<255, 0>>
  /\ wrote[1]["err"] = <<>>
  /\ result[1]["err"] = <<>>
  /\ nw[1] = 1

\* C5: when a panic of the action reaches the caller of a capture function,
\* the streams are what they were before the call, none of them the call's pipe.
C5_PanicRestores ==
  \A c \in Calls :
    At(c, "panicked") =>
      /\ osStd = pre[c]
      /\ \A s \in CapturedSet(kind[c]) : osStd[s] # rw[c][s]

C5_Witness ==
  /\ At(1, "panicked")
  /\ kind[1] = "both"
  /\ wrote[1]["out"] # <<>>
  /\ ~pipes[rw[1]["out"]].wclosed

\* C6: under FairSpec a panic of the action is passed on to the caller: from the
\* moment the action has panicked the call only runs its deferred function and
\* never returns normally, and it does reach the caller without waiting for the
\* drain.
C6_PanicPropagates ==
  /\ [][\A c \in Calls : At(c, "unwind") => pc'[c].step \in {"unwind", "panicked"}]_vars
  /\ \A c \in Calls : At(c, "unwind") ~> At(c, "panicked")

C6_Witness ==
  /\ At(1, "panicked")
  /\ kind[1] = "stdout"
  /\ wg[1] = 1
  /\ pipes[rw[1]["out"]].drain = "running"

\* C7: when the action starts writers that each print one distinct line with a
\* single write and waits for them, the text returned for a captured stream
\* contains the whole line of every writer that wrote to that stream.
C7_AllLines ==
  \A c \in Calls :
    HasResult(c) =>
      \A t \in Tids \ {0} :
        thr[c][t].st = "done" /\ thr[c][t].s \in CapturedSet(kind[c]) =>
          Contains(result[c][thr[c][t].s], Line(t))

C7_Witness ==
  /\ At(1, "returned")
  /\ kind[1] = "stdout"
  /\ \A t \in Tids \ {0} : thr[1][t].st = "done" /\ thr[1][t].s = "out"
  /\ SubSeq(result[1]["out"], 1, 2) = Line(2)
  /\ Len(result[1]["out"]) = 2 * NWriters

\* C8: two CaptureStdout calls that overlap leave os.Stdout on a closed pipe:
\* whenever a call that saved the other call's write end as its old stream
\* returns after that other call has returned, os.Stdout becomes the other
\* call's write end, which is closed, and not the original destination.
C8_OverlapStale ==
  [][\A a, b \in Calls :
       /\ a # b
       /\ At(a, "returned")
       /\ At(b, "restore")
       /\ IsPipe(rw[a]["out"])
       /\ old[b]["out"] = rw[a]["out"]
       => /\ pc'[b].step = "returned"
          /\ osStdout' = rw[a]["out"]
          /\ osStdout' # Orig("out")
          /\ pipes'[osStdout'].wclosed]_vars

C8_Witness ==
  /\ At(1, "returned")
  /\ At(2, "returned")
  /\ ~failed[1] /\ ~failed[2]
  /\ IsPipe(osStdout)
  /\ pipes[osStdout].wclosed
  /\ osStdout # Orig("out")

\* C9: when os.Pipe fails the test is failed at once: the action was never
\* invoked, no drain of the call was started, and os.Stdout and os.Stderr are
\* what they were before the call.
C9_PipeFailure ==
  \A c \in Calls :
    At(c, "fatal") =>
      /\ failed[c]
      /\ ~called[c]
      /\ wg[c] = 0
      /\ \A p \in 1..Len(pipes) : pipes[p].owner = c => pipes[p].drain = "none"
      /\ osStd = pre[c]

C9_Witness ==
  /\ At(1, "fatal")
  /\ kind[1] = "both"
  /\ rw[1]["out"] # NoFile
  /\ rw[1]["err"] = NoFile

\* C10: a read of a drain that fails marks the test failed, and in
\* CaptureStdoutAndStderr the text returned for the other stream, whose drain
\* reached end-of-stream, is still exactly what the action wrote to it.
C10_ReadError ==
  \A c \in Calls :
    /\ \A p \in 1..Len(pipes) :
         pipes[p].owner = c /\ pipes[p].drain = "failed" => failed[c]
    /\ HasResult(c) /\ kind[c] = "both" =>
         \A s \in Stream :
           pipes[rw[c][s]].drain = "done" => result[c][s] = wrote[c][s]

C10_Witness ==
  /\ At(1, "returned")
  /\ kind[1] = "both"
  /\ pipes[rw[1]["out"]].drain = "failed"
  /\ pipes[rw[1]["err"]].drain = "done"
  /\ wrote[1]["out"] = <<0>>
  /\ result[1]["out"] = <<>>
  /\ result[1]["err"] = <<255, 0>>
  /\ failed[1]

\* =========================================================================
\* The request captor: http_utils.go
\* =========================================================================
MaxReq == 3                        \* requests that arrive in one run

\* The requests of TestHTTPRequestCaptor, and one whose Body is nil. The URL
\* is kept in its parsed form: a path and a raw query.
Requests ==
  << [method |-> "GET",  url |-> [path |-> "/get-path",  query |-> "param=value"],
      headers |-> <<>>, hasBody |-> TRUE, body |-> <<>>],
     [method |-> "POST", url |-> [path |-> "/post-path", query |-> ""],
      headers |-> <<"Content-Type: application/json">>, hasBody |-> TRUE,
      body |-> <<123, 0, 255, 10, 125>>],
     [method |-> "PUT",  url |-> [path |-> "/put-path",  query |-> ""],
      headers |-> <<"Content-Type: text/plain", "X-Custom-Header: test-value">>,
      hasBody |-> TRUE, body |-> <<116>>],
     [method |-> "GET",  url |-> [path |-> "/", query |-> "a=1"],
      headers |-> <<>>, hasBody |-> FALSE, body |-> <<>>] >>
ReqIds == 1..Len(Requests)

\* ---- Go slices over backing arrays
SliceElems(h, sl) == [i \in 1..sl.len |-> h[sl.arr][i]]
GrownCap(sl) == IF sl.cap = 0 THEN 1 ELSE 2 * sl.cap
\* append(sl, rec): in place while capacity lasts, else into a new array
AppendSlice(h, sl, rec) ==
  IF sl.len < sl.cap
    THEN [sl EXCEPT !.len = @ + 1]
    ELSE [arr |-> Len(h) + 1, len |-> sl.len + 1, cap |-> GrownCap(sl)]
AppendHeap(h, sl, rec) ==
  IF sl.len < sl.cap
    THEN [h EXCEPT ![sl.arr][sl.len + 1] = rec]
    ELSE Append(h, [i \in 1..GrownCap(sl) |->
                      IF i <= sl.len THEN h[sl.arr][i]
                      ELSE IF i = sl.len + 1 THEN rec ELSE ZeroRecord])
\* make([]RequestRecord, len(sl)); copy(result, sl)
CopyAliased(h, sl) == sl
CopySlice(h, sl)   == [arr |-> Len(h) + 1, len |-> sl.len, cap |-> sl.len]
CopyHeap(h, sl)    == Append(h, SliceElems(h, sl))

\* ---- the captor's methods as values of the current state
CaptorLen == captor.requests.len
GetRequestInclusive(idx) ==
  IF idx < 0 \/ idx > captor.requests.len
    THEN [rec |-> ZeroRecord, ok |-> FALSE]
    ELSE [rec |-> IF idx < captor.requests.len
                    THEN heap[captor.requests.arr][idx + 1] ELSE ZeroRecord,
          ok |-> TRUE]
GetRequest(idx) ==
  IF idx < 0 \/ idx >= captor.requests.len
    THEN [rec |-> ZeroRecord, ok |-> FALSE]
    ELSE [rec |-> heap[captor.requests.arr][idx + 1], ok |-> TRUE]
GetRequestsElems == SliceElems(heap, captor.requests)

MuIgnored == TRUE
MuFree    == captor.mu = 0

\* ---- HTTPRequestCaptor(t, next)
HTTPRequestCaptor(n) ==
  /\ ~captor.made
  /\ captor' = [made |-> TRUE, requests |-> NilSlice, mu |-> 0, next |-> n]
  /\ UNCHANGED <<heap, hs, snap, served, obs>>
  /\ UNCHANGED <<capVars, variantVars, lifeVars, envVars>>

\* ---- the handler: one goroutine h per request
HStep(h, s) == hs[h].pc = s
Arrive(h, r) ==
  /\ captor.made
  /\ hs[h].pc \in {"idle", "done"}
  /\ served.total < MaxReq
  /\ hs' = [hs EXCEPT ![h] = [IdleHandler EXCEPT !.pc = "build", !.req = r,
                                !.hasBody = Requests[r].hasBody,
                                !.stream = Requests[r].body]]
  /\ served' = [served EXCEPT !.total = @ + 1]
  /\ UNCHANGED <<captor, heap, snap, obs>>
  /\ UNCHANGED <<capVars, variantVars, lifeVars, envVars>>

UrlPath(url) == url.path
\* io.ReadAll(r.Body) consumes the stream; io.NopCloser(bytes.NewReader(b))
\* is a fresh stream over the bytes read
BodyConsumed(bodyBytes) == <<>>
RestoredBody(bodyBytes) == bodyBytes
\* faulty variant: the request is forwarded right after the record is built
AfterBuildForward == "next"
\* the statement after the record is built: captor.add(record)
AfterBuild == "lock"
Build(h) ==
  /\ HStep(h, "build")
  /\ LET r == Requests[hs[h].req]
         bodyBytes == hs[h].stream
         record == [Method |-> r.method, Path |-> UrlPath(r.url),
                    Headers |-> r.headers,
                    Body |-> IF hs[h].hasBody THEN bodyBytes ELSE <<>>]
     IN hs' = [hs EXCEPT ![h].pc = AfterBuild, ![h].record = record,
                         ![h].stream = IF hs[h].hasBody THEN RestoredBody(bodyBytes)
                                       ELSE hs[h].stream]
  /\ UNCHANGED <<captor, heap, snap, served, obs>>
  /\ UNCHANGED <<capVars, variantVars, lifeVars, envVars>>

\* ---- RequestCaptor.add: Lock, append, Unlock
AddLock(h) ==
  /\ HStep(h, "lock")
  /\ MuFree
  /\ captor' = [captor EXCEPT !.mu = h]
  /\ hs' = [hs EXCEPT ![h].pc = "load"]
  /\ UNCHANGED <<heap, snap, served, obs>>
  /\ UNCHANGED <<capVars, variantVars, lifeVars, envVars>>

AddLoad(h) ==
  /\ HStep(h, "load")
  /\ hs' = [hs EXCEPT ![h].pc = "store", ![h].tmp = captor.requests]
  /\ UNCHANGED <<captor, heap, snap, served, obs>>
  /\ UNCHANGED <<capVars, variantVars, lifeVars, envVars>>

AddStore(h) ==
  /\ HStep(h, "store")
  /\ captor' = [captor EXCEPT !.requests = AppendSlice(heap, hs[h].tmp, hs[h].record)]
  /\ heap' = AppendHeap(heap, hs[h].tmp, hs[h].record)
  /\ served' = [served EXCEPT !.log = Append(@, hs[h].req)]
  /\ hs' = [hs EXCEPT ![h].pc = "unlock", ![h].tmp = NilSlice]
  /\ UNCHANGED <<snap, obs>>
  /\ UNCHANGED <<capVars, variantVars, lifeVars, envVars>>

AddUnlock(h) ==
  /\ HStep(h, "unlock")
  /\ captor' = [captor EXCEPT !.mu = 0]
  /\ hs' = [hs EXCEPT ![h].pc = "next"]
  /\ UNCHANGED <<heap, snap, served, obs>>
  /\ UNCHANGED <<capVars, variantVars, lifeVars, envVars>>

\* ---- if next != nil { next.ServeHTTP(w, r) }: the downstream handler reads
\* r.Body to its end
Forward(h) ==
  /\ HStep(h, "next")
  /\ captor.next
  /\ hs' = [hs EXCEPT ![h].pc = "done", ![h].fwd = TRUE,
                      ![h].seen = hs[h].stream, ![h].stream = <<>>]
  /\ UNCHANGED <<captor, heap, snap, served, obs>>
  /\ UNCHANGED <<capVars, variantVars, lifeVars, envVars>>

NoForward(h) ==
  /\ HStep(h, "next")
  /\ ~captor.next
  /\ hs' = [hs EXCEPT ![h].pc = "done"]
  /\ UNCHANGED <<captor, heap, snap, served, obs>>
  /\ UNCHANGED <<capVars, variantVars, lifeVars, envVars>>

Handle(h) ==
  \/ Build(h) \/ AddLock(h) \/ AddLoad(h) \/ AddStore(h) \/ AddUnlock(h)
  \/ Forward(h) \/ NoForward(h)

\* ---- the test goroutine calls the captor's methods; each holds the mutex
\* from its first statement to its return
CallLen ==
  /\ captor.made
  /\ MuFree
  /\ obs' = [op |-> "Len", idx |-> 0, rec |-> ZeroRecord, ok |-> FALSE, n |-> CaptorLen]
  /\ UNCHANGED <<captor, heap, hs, snap, served>>
  /\ UNCHANGED <<capVars, variantVars, lifeVars, envVars>>

CallGetRequest(idx) ==
  /\ captor.made
  /\ MuFree
  /\ obs' = [op |-> "GetRequest", idx |-> idx, rec |-> GetRequest(idx).rec,
             ok |-> GetRequest(idx).ok, n |-> 0]
  /\ UNCHANGED <<captor, heap, hs, snap, served>>
  /\ UNCHANGED <<capVars, variantVars, lifeVars, envVars>>

CallGetRequests ==
  /\ captor.made
  /\ MuFree
  /\ ~snap.taken
  /\ snap' = [taken |-> TRUE, sl |-> CopySlice(heap, captor.requests)]
  /\ heap' = CopyHeap(heap, captor.requests)
  /\ UNCHANGED <<captor, hs, served, obs>>
  /\ UNCHANGED <<capVars, variantVars, lifeVars, envVars>>

ResetValueTruncated == [captor.requests EXCEPT !.len = IF @ > 0 THEN @ - 1 ELSE 0]
ResetValue == NilSlice
Reset ==
  /\ captor.made
  /\ MuFree
  /\ captor' = [captor EXCEPT !.requests = ResetValue]
  /\ served' = [served EXCEPT !.log = <<>>]
  /\ UNCHANGED <<heap, hs, snap, obs>>
  /\ UNCHANGED <<capVars, variantVars, lifeVars, envVars>>

\* ---- the caller edits the slice GetRequests returned
JunkRecord == [Method |-> "JUNK", Path |-> "/junk", Headers |-> <<"X: y">>, Body |-> <<1>>]
SnapOverwrite(i) ==
  /\ snap.taken
  /\ i \in 1..snap.sl.len
  /\ heap[snap.sl.arr][i] # JunkRecord
  /\ heap' = [heap EXCEPT ![snap.sl.arr][i] = JunkRecord]
  /\ UNCHANGED <<captor, hs, snap, served, obs>>
  /\ UNCHANGED <<capVars, variantVars, lifeVars, envVars>>

SnapSwap(i) ==
  /\ snap.taken
  /\ i \in 1..(snap.sl.len - 1)
  /\ heap[snap.sl.arr][i] # heap[snap.sl.arr][i + 1]
  /\ heap' = [heap EXCEPT ![snap.sl.arr][i] = heap[snap.sl.arr][i + 1],
                          ![snap.sl.arr][i + 1] = heap[snap.sl.arr][i]]
  /\ UNCHANGED <<captor, hs, snap, served, obs>>
  /\ UNCHANGED <<capVars, variantVars, lifeVars, envVars>>

\* ---- specifications of the captor
NoHandlerBusy == \A h \in Handlers : hs[h].pc \in {"idle", "done"}
Indexes == -1..(MaxReq + 1)

\* requests handled one after another, lookups and Resets at any time
HttpSeqNext ==
  \/ \E n \in BOOLEAN : HTTPRequestCaptor(n)
  \/ \E r \in ReqIds : NoHandlerBusy /\ Arrive(1, r)
  \/ Handle(1)
  \/ CallLen
  \/ \E idx \in Indexes : CallGetRequest(idx)
  \/ Reset
HttpSeqSpec == Init /\ [][HttpSeqNext]_vars

\* a snapshot taken at any time and edited by its holder
SnapReqIds == {1, 2, 3}
HttpSnapNext ==
  \/ \E n \in BOOLEAN : HTTPRequestCaptor(n)
  \/ \E r \in SnapReqIds : NoHandlerBusy /\ Arrive(1, r)
  \/ Handle(1)
  \/ CallGetRequests
  \/ \E i \in 1..MaxReq : SnapOverwrite(i) \/ SnapSwap(i)
  \/ Reset
HttpSnapSpec == Init /\ [][HttpSnapNext]_vars

\* requests handled concurrently with lookups, no Reset
ParReqIds == {2, 3}
HttpParNext ==
  \/ \E n \in BOOLEAN : HTTPRequestCaptor(n)
  \/ \E h \in Handlers, r \in ParReqIds : Arrive(h, r)
  \/ \E h \in Handlers : Handle(h)
  \/ CallLen
  \/ \E idx \in Indexes : CallGetRequest(idx)
  \/ CallGetRequests
HttpParSpec == Init /\ [][HttpParNext]_vars

\* ------------------------------------------------------ claims: the captor
\* what the record of request r has to hold: its method, the path of its URL
\* without the query, its headers and every byte of its body
RecordOf(r) ==
  [Method |-> Requests[r].method, Path |-> Requests[r].url.path,
   Headers |-> Requests[r].headers, Body |-> Requests[r].body]
Missing == [rec |-> ZeroRecord, ok |-> FALSE]
LookupStep == \E idx \in Indexes : CallGetRequest(idx)

C12_ConcurrentRecording ==
  /\ GetRequestsElems = [i \in 1..Len(served.log) |-> RecordOf(served.log[i])]
  /\ NoHandlerBusy => CaptorLen = served.total

C12_Witness ==
  /\ hs[1].pc = "unlock"
  /\ hs[2].pc = "lock"
  /\ captor.mu = 1
  /\ served.total = 3
  /\ CaptorLen = 2
  /\ obs.op = "Len" /\ obs.n = 1
  /\ snap.taken

\* C13: what GetRequests returned is independent of the captor's list: a
\* recording or a Reset after it returned leaves the returned slice as it was,
\* and overwriting or reordering its elements leaves what Len, GetRequest and
\* GetRequests report as it was.
SnapElems == SliceElems(heap, snap.sl)
SnapEdit  == \E i \in 1..MaxReq : SnapOverwrite(i) \/ SnapSwap(i)
C13_Snapshot ==
  [][/\ snap.taken /\ ((\E h \in Handlers : AddStore(h)) \/ Reset)
          => SnapElems' = SnapElems
     /\ SnapEdit
          => /\ CaptorLen' = CaptorLen
             /\ GetRequestsElems' = GetRequestsElems
             /\ \A i \in Indexes : GetRequest(i)' = GetRequest(i)]_vars

C13_Witness ==
  /\ snap.taken
  /\ SnapElems = <<JunkRecord, RecordOf(1)>>
  /\ GetRequestsElems = <<RecordOf(1), RecordOf(2), RecordOf(3)>>

\* C14: a Reset leaves Len() = 0, GetRequests() empty and GetRequest(i) =
\* (zero record, false) for every i; recordings after it are indexed from 0
\* again, so Len() is always the number of requests recorded since the last
\* Reset.
C14_Reset ==
  /\ [][Reset => /\ CaptorLen' = 0
                 /\ GetRequestsElems' = <<>>
                 /\ \A i \in Indexes : GetRequest(i)' = Missing]_vars
  /\ [](/\ CaptorLen = Len(served.log)
        /\ served.log # <<>> => GetRequest(0).rec = RecordOf(served.log[1]))

C14_Witness ==
  /\ served.total = 3
  /\ served.log = <<2>>
  /\ CaptorLen = 1
  /\ GetRequest(0) = [rec |-> RecordOf(2), ok |-> TRUE]
  /\ Len(heap) = 2

MaxServers == 2                    \* MockHTTPServer calls of the test
MaxFiles   == 2                    \* WriteTestFile calls of the test

\* contents: empty, bytes 0x00 and 0xFF, several lines
Contents == {<<>>, <<0, 255>>, <<255, 0, 65>>, <<65, 10, 66, 10>>}

\* t.Cleanup(f): f is pushed; the cleanups run last in, first out
TCleanupDropped(cl, e) == cl
TCleanup(cl, e) == Append(cl, e)
Registered(e) == \E i \in 1..Len(tst.cleanups) : tst.cleanups[i] = e

\* httptest.Server.Close: shuts the listener down unless already closed
ServerClose(srv) ==
  [closed |-> TRUE, calls |-> srv.calls + 1,
   shutdowns |-> IF srv.closed THEN srv.shutdowns ELSE srv.shutdowns + 1]

\* ---- MockHTTPServer(t, handler)
MockHTTPServer ==
  /\ tst.phase = "running"
  /\ wtf.pc = "none"
  /\ Len(servers) < MaxServers
  /\ servers' = Append(servers, [closed |-> FALSE, calls |-> 0, shutdowns |-> 0])
  /\ tst' = [tst EXCEPT !.cleanups = TCleanup(@, [kind |-> "server", id |-> Len(servers) + 1])]
  /\ UNCHANGED <<fs, wtf>>
  /\ UNCHANGED <<capVars, variantVars, httpVars, envVars>>

\* the caller invokes the cleanup function MockHTTPServer returned
CallCleanup(id) ==
  /\ tst.phase = "running"
  /\ wtf.pc = "none"
  /\ id \in 1..Len(servers)
  /\ servers[id].calls = 0
  /\ servers' = [servers EXCEPT ![id] = ServerClose(@)]
  /\ UNCHANGED <<tst, fs, wtf>>
  /\ UNCHANGED <<capVars, variantVars, httpVars, envVars>>

\* ---- WriteTestFile(t, content)
WtfStep(s) == wtf.pc = s
WtfBegin(content) ==
  /\ tst.phase = "running"
  /\ WtfStep("none")
  /\ Len(fs) < MaxFiles
  /\ wtf' = [pc |-> "mkdir", dir |-> 0, content |-> content]
  /\ UNCHANGED <<tst, servers, fs>>
  /\ UNCHANGED <<capVars, variantVars, httpVars, envVars>>

\* t.Fatalf: the test is marked failed and its goroutine exits
Fatalf ==
  /\ tst' = [tst EXCEPT !.failed = TRUE, !.phase = "cleanup"]
  /\ wtf' = NoWrite

\* os.MkdirTemp("", "testutils-"): a new empty directory
MkdirOK ==
  /\ WtfStep("mkdir")
  /\ fs' = Append(fs, [exists |-> TRUE, hasFile |-> FALSE, data |-> <<>>,
                       want |-> wtf.content, returned |-> FALSE])
  /\ wtf' = [wtf EXCEPT !.pc = "register", !.dir = Len(fs) + 1]
  /\ UNCHANGED <<tst, servers>>
  /\ UNCHANGED <<capVars, variantVars, httpVars, envVars>>

MkdirFail ==
  /\ WtfStep("mkdir")
  /\ Fatalf
  /\ UNCHANGED <<servers, fs>>
  /\ UNCHANGED <<capVars, variantVars, httpVars, envVars>>

Register ==
  /\ WtfStep("register")
  /\ tst' = [tst EXCEPT !.cleanups = TCleanup(@, [kind |-> "rmdir", id |-> wtf.dir])]
  /\ wtf' = [wtf EXCEPT !.pc = "write"]
  /\ UNCHANGED <<servers, fs>>
  /\ UNCHANGED <<capVars, variantVars, httpVars, envVars>>

\* os.WriteFile(tempFile, []byte(content), 0o600)
RECURSIVE UntilNul(_)
UntilNul(b) == IF b = <<>> \/ Head(b) = 0 THEN <<>> ELSE <<Head(b)>> \o UntilNul(Tail(b))
Bytes(content) == content
WriteOK ==
  /\ WtfStep("write")
  /\ fs' = [fs EXCEPT ![wtf.dir].hasFile = TRUE, ![wtf.dir].data = Bytes(wtf.content)]
  /\ wtf' = [wtf EXCEPT !.pc = "return"]
  /\ UNCHANGED <<tst, servers>>
  /\ UNCHANGED <<capVars, variantVars, httpVars, envVars>>

\* a failed WriteFile may leave the file behind, created but incomplete
WriteFail(created) ==
  /\ WtfStep("write")
  /\ Fatalf
  /\ fs' = [fs EXCEPT ![wtf.dir].hasFile = created]
  /\ UNCHANGED servers
  /\ UNCHANGED <<capVars, variantVars, httpVars, envVars>>

WtfReturn ==
  /\ WtfStep("return")
  /\ fs' = [fs EXCEPT ![wtf.dir].returned = TRUE]
  /\ wtf' = NoWrite
  /\ UNCHANGED <<tst, servers>>
  /\ UNCHANGED <<capVars, variantVars, httpVars, envVars>>

WriteTestFile ==
  \/ \E content \in Contents : WtfBegin(content)
  \/ MkdirOK \/ MkdirFail \/ Register \/ WriteOK \/ WtfReturn
  \/ \E created \in BOOLEAN : WriteFail(created)

\* os.ReadFile of the file "testfile" in directory d
ReadFile(d) ==
  IF fs[d].exists /\ fs[d].hasFile THEN [ok |-> TRUE, data |-> fs[d].data]
  ELSE [ok |-> FALSE, data |-> <<>>]

\* ---- the end of the test
\* an assertion of the test fails (t.Errorf): the test goes on, marked failed
TestErrorf ==
  /\ tst.phase = "running"
  /\ wtf.pc = "none"
  /\ ~tst.failed
  /\ tst' = [tst EXCEPT !.failed = TRUE]
  /\ UNCHANGED <<servers, fs, wtf>>
  /\ UNCHANGED <<capVars, variantVars, httpVars, envVars>>

\* the test function returns
TestReturn ==
  /\ tst.phase = "running"
  /\ wtf.pc = "none"
  /\ tst' = [tst EXCEPT !.phase = "cleanup"]
  /\ UNCHANGED <<servers, fs, wtf>>
  /\ UNCHANGED <<capVars, variantVars, httpVars, envVars>>

\* os.RemoveAll(tempDir)
RemoveFileOnly(dir) == [dir EXCEPT !.hasFile = FALSE]
RemoveAll(dir) == [dir EXCEPT !.exists = FALSE, !.hasFile = FALSE]

\* the testing package runs the cleanup registered last
RunCleanup ==
  /\ tst.phase = "cleanup"
  /\ tst.cleanups # <<>>
  /\ LET e == tst.cleanups[Len(tst.cleanups)] IN
       /\ servers' = IF e.kind = "server" THEN [servers EXCEPT ![e.id] = ServerClose(@)]
                     ELSE servers
       /\ fs' = IF e.kind = "rmdir" THEN [fs EXCEPT ![e.id] = RemoveAll(@)] ELSE fs
  /\ tst' = [tst EXCEPT !.cleanups = SubSeq(@, 1, Len(@) - 1)]
  /\ UNCHANGED wtf
  /\ UNCHANGED <<capVars, variantVars, httpVars, envVars>>

CleanupsDone ==
  /\ tst.phase = "cleanup"
  /\ tst.cleanups = <<>>
  /\ tst' = [tst EXCEPT !.phase = "done"]
  /\ UNCHANGED <<servers, fs, wtf>>
  /\ UNCHANGED <<capVars, variantVars, httpVars, envVars>>

LifeNext ==
  \/ MockHTTPServer
  \/ \E id \in 1..MaxServers : CallCleanup(id)
  \/ WriteTestFile
  \/ TestErrorf
  \/ TestReturn
  \/ RunCleanup
  \/ CleanupsDone
LifeSpec == Init /\ [][LifeNext]_vars

\* ------------------------------------------- claims: servers and temp files
\* C16: MockHTTPServer registers the server's shutdown with the test, so every
\* server is closed once the test has finished, whether or not the caller
\* invoked the returned cleanup; a second shutdown of a server does nothing:
\* the listener is shut down exactly once.
C16_ServerClosed ==
  /\ tst.phase = "running" =>
       \A id \in 1..Len(servers) : Registered([kind |-> "server", id |-> id])
  /\ tst.phase = "done" =>
       \A id \in 1..Len(servers) :
         /\ servers[id].closed
         /\ servers[id].shutdowns = 1
  /\ \A id \in 1..Len(servers) :
       servers[id].calls >= 1 => servers[id].closed /\ servers[id].shutdowns = 1

C16_Witness ==
  /\ tst.phase = "done"
  /\ Len(servers) = 2
  /\ servers[1] = [closed |-> TRUE, calls |-> 2, shutdowns |-> 1]
  /\ servers[2] = [closed |-> TRUE, calls |-> 1, shutdowns |-> 1]

\* C17: while the test runs, reading the file at the path WriteTestFile
\* returned yields exactly the content passed in, byte for byte, whatever the
\* content: empty, several lines, bytes 0x00 and 0xFF.
C17_RoundTrip ==
  \A d \in 1..Len(fs) :
    fs[d].returned /\ tst.phase = "running" =>
      ReadFile(d) = [ok |-> TRUE, data |-> fs[d].want]

C17_Witness ==
  /\ tst.phase = "running"
  /\ Len(fs) = 2
  /\ fs[1].returned /\ fs[1].want = <<255, 0, 65>> /\ ReadFile(1).data = <<255, 0, 65>>
  /\ fs[2].returned /\ fs[2].want = <<>> /\ ReadFile(2) = [ok |-> TRUE, data |-> <<>>]

EnvValues == {"", "original_value"}
\* mongodb://host:port, the mapped port differing from container to container
Uri(m) == IF m = 1 THEN "mongodb://localhost:32768" ELSE "mongodb://localhost:32769"

Getenv       == IF env.set THEN env.val ELSE ""
Setenv(v)    == [set |-> TRUE, val |-> v]
\* if origURL != "" { os.Setenv(origURL) } else { os.Unsetenv }
RestoreEnvAlwaysSet(origURL) == Setenv(origURL)
RestoreEnv(origURL) == IF origURL # "" THEN Setenv(origURL) ELSE Unset

\* the test prepares the environment: os.Setenv("MONGO_TEST", v)
TestSetenv(v) ==
  /\ \A m \in Containers : mongo[m].pc = "none"
  /\ env # Setenv(v)
  /\ env' = Setenv(v)
  /\ UNCHANGED <<mongo, db>>
  /\ UNCHANGED <<capVars, variantVars, httpVars, lifeVars>>

\* container.Terminate(ctx): the call may fail and leave the container running
Terminated(c, termOK) ==
  [c EXCEPT !.terminates = @ + 1, !.running = IF termOK THEN FALSE ELSE @]

NewOutcomes == {"ok", "start", "host", "port", "setenv", "connect"}
\* ---- NewMongoTestContainerE: outcome names the step that fails, if any
NewMongoTestContainerE(m, outcome, termOK) ==
  /\ mongo[m].pc = "none"
  /\ LET origURL == Getenv
         started == [NoContainer EXCEPT !.origURL = origURL, !.before = env,
                                        !.running = TRUE]
     IN CASE outcome = "start" ->
               /\ mongo' = [mongo EXCEPT ![m] = [started EXCEPT !.pc = "failed",
                                                   !.running = FALSE, !.ret = "err"]]
               /\ UNCHANGED env
          [] outcome \in {"host", "port", "setenv"} ->
               /\ mongo' = [mongo EXCEPT ![m] = [Terminated(started, termOK) EXCEPT
                                                   !.pc = "failed", !.ret = "err"]]
               /\ UNCHANGED env
          [] outcome = "connect" ->
               /\ env' = RestoreEnv(origURL)
               /\ mongo' = [mongo EXCEPT ![m] = [Terminated(started, termOK) EXCEPT
                                                   !.pc = "failed", !.uri = Uri(m),
                                                   !.ret = "err"]]
          [] outcome = "ok" ->
               /\ termOK
               /\ env' = Setenv(Uri(m))
               /\ mongo' = [mongo EXCEPT ![m] = [started EXCEPT !.pc = "open",
                                                   !.uri = Uri(m), !.connected = TRUE,
                                                   !.ret = "nil"]]
  /\ UNCHANGED <<capVars, variantVars, httpVars, lifeVars, db>>

CloseOutcomes == {"ok", "disconnect", "env", "terminate"}
\* ---- MongoTestContainer.Close: outcome names the step that fails, if any
MongoClose(m, outcome) ==
  /\ mongo[m].pc \in {"open", "closing"}
  /\ CASE outcome = "disconnect" \/ ~mongo[m].connected ->
            \* Disconnect fails, also when the client is already disconnected
            /\ mongo[m].ret # "closeErr"
            /\ mongo' = [mongo EXCEPT ![m].ret = "closeErr"]
            /\ UNCHANGED env
       [] outcome = "env" /\ mongo[m].connected ->
            /\ mongo' = [mongo EXCEPT ![m].connected = FALSE, ![m].pc = "closing",
                                      ![m].ret = "closeErr"]
            /\ UNCHANGED env
       [] outcome = "terminate" /\ mongo[m].connected ->
            /\ env' = RestoreEnv(mongo[m].origURL)
            /\ mongo' = [mongo EXCEPT ![m] = [Terminated(@, FALSE) EXCEPT
                                                !.connected = FALSE, !.pc = "closing",
                                                !.ret = "closeErr"]]
       [] outcome = "ok" /\ mongo[m].connected ->
            /\ env' = RestoreEnv(mongo[m].origURL)
            /\ mongo' = [mongo EXCEPT ![m] = [Terminated(@, TRUE) EXCEPT
                                                !.connected = FALSE, !.pc = "closed",
                                                !.ret = "closeNil"]]
  /\ UNCHANGED <<capVars, variantVars, httpVars, lifeVars, db>>

MongoNext ==
  \/ \E v \in EnvValues : TestSetenv(v)
  \/ \E m \in Containers, o \in NewOutcomes, termOK \in BOOLEAN :
       NewMongoTestContainerE(m, o, termOK)
  \/ \E m \in Containers, o \in CloseOutcomes : MongoClose(m, o)
MongoSpec == Init /\ [][MongoNext]_vars

\* --------------------------------------------------- claims: MONGO_TEST
\* C19: creating a Mongo test container sets MONGO_TEST to the container's
\* URI; a Close of it that returns nil leaves MONGO_TEST at the value it had
\* just before the container was created if that value was non-empty, and
\* unset otherwise.
Created(m) == mongo[m].pc = "none" /\ mongo'[m].pc = "open"
ClosedNil(m) == mongo[m].ret # "closeNil" /\ mongo'[m].ret = "closeNil"
C19_EnvRestored ==
  [][\A m \in Containers :
       /\ Created(m) => env' = [set |-> TRUE, val |-> Uri(m)] /\ mongo'[m].uri = Uri(m)
       /\ ClosedNil(m) =>
            env' = IF mongo[m].before.set /\ mongo[m].before.val # ""
                     THEN mongo[m].before
                     ELSE [set |-> FALSE, val |-> ""]]_vars

C19_Witness ==
  /\ mongo[1].ret = "closeNil"
  /\ mongo[1].before = [set |-> TRUE, val |-> "original_value"]
  /\ env = [set |-> TRUE, val |-> "original_value"]
  /\ mongo[2].pc = "none"

\* --------------------------------------- claims: order of a capture call
\* the pipes of call c, once all of them are made
OwnPipes(c) == {rw[c][s] : s \in CapturedSet(kind[c])}
HasPipes(c) == kind[c] # "none" /\ \A s \in CapturedSet(kind[c]) : rw[c][s] # NoFile
ActionReturned(c) == pc[c].step \in {"close", "wait", "ret", "restore", "returned"}
BuffersRead(c)    == pc[c].step \in {"ret", "restore", "returned"}

\* C20 as stated: the events of a call come in groups, each group wholly before
\* the next: drains launched; action invoked; action returned; every write end
\* closed; every drain at end-of-stream and finished; buffers read.
C20_StrictOrder ==
  \A c \in Calls : HasPipes(c) =>
    /\ called[c] => \A p \in OwnPipes(c) : pipes[p].drain # "none"
    /\ (\E p \in OwnPipes(c) : pipes[p].wclosed) => ActionReturned(c)
    /\ (\E p \in OwnPipes(c) : pipes[p].drain = "done") =>
         \A q \in OwnPipes(c) : pipes[q].wclosed
    /\ BuffersRead(c) => \A p \in OwnPipes(c) : pipes[p].drain = "done"

\* C20: every drain of the call is launched before the action is invoked; a
\* write end is closed only after the action returned; a drain reaches
\* end-of-stream and finishes only after its own write end is closed (in
\* CaptureStdoutAndStderr the drain of stdout may finish before the write end
\* of stderr is closed); the buffers are read only after every write end is
\* closed and every drain has finished.
C20_EventOrder ==
  \A c \in Calls : HasPipes(c) =>
    /\ called[c] => \A p \in OwnPipes(c) : pipes[p].drain # "none"
    /\ (\E p \in OwnPipes(c) : pipes[p].wclosed) => ActionReturned(c)
    /\ \A p \in OwnPipes(c) : pipes[p].drain = "done" => pipes[p].wclosed
    /\ BuffersRead(c) =>
         \A p \in OwnPipes(c) : pipes[p].wclosed /\ pipes[p].drain = "done"

C20_Witness ==
  /\ kind[1] = "both"
  /\ pc[1] = [step |-> "close", i |-> 2]
  /\ pipes[rw[1]["out"]].wclosed /\ pipes[rw[1]["out"]].drain = "done"
  /\ ~pipes[rw[1]["err"]].wclosed /\ pipes[rw[1]["err"]].drain = "running"
  /\ buf[1]["out"] = <<255, 0>>

\* ------------------------------- claims: restoring, closing and draining
\* the deferred assignment of call c has put the streams back
StreamsRestored(c) == pc[c].step \in {"returned", "panicked"}

\* C21: on every path of a capture call, normal return or panic of the
\* action, a stream is restored only after the write end of its pipe has been
\* closed and its drain has run to end-of-stream.
C21_DrainedBeforeRestored ==
  \A c \in Calls : HasPipes(c) /\ StreamsRestored(c) =>
    \A p \in OwnPipes(c) : pipes[p].wclosed /\ pipes[p].drain = "done"

\* C22: once the action has completed, by return or by panic, the write end
\* of every pipe of the call gets closed and every drain the call started
\* reaches end-of-stream and finishes; none stays blocked on its pipe.
C22_DrainsFinish ==
  \A c \in Calls :
    (pc[c].step \in {"close", "unwind"}) ~>
      (HasPipes(c) /\ \A p \in OwnPipes(c) : pipes[p].wclosed /\ pipes[p].drain = "done")

\* =========================================================================
\* An action that starts a goroutine and returns without waiting for it
\* =========================================================================
\* go func() { ...; fmt.Fprintln(os.Stdout, ...) }() as the action's last
\* statement: goroutine t is started and has not written yet
ActGo(c, t) ==
  /\ At(c, "f")
  /\ thr[c][0].st = "idle"
  /\ t # 0
  /\ thr[c][t].st = "off"
  /\ thr' = [thr EXCEPT ![c][t] = [IdleThr EXCEPT !.st = "ready"]]
  /\ UNCHANGED <<osStd, pipes, pc, kind, old, rw, buf, wg, nw, wrote, result, failed, pre, called, ext>>

\* f() returns while the goroutine it started has still to write
ActReturnEarly(c) ==
  /\ At(c, "f")
  /\ thr[c][0].st = "idle"
  /\ \E t \in Tids \ {0} : thr[c][t].st = "ready"
  /\ pc'  = [pc EXCEPT ![c] = [step |-> "close", i |-> 1]]
  /\ thr' = [thr EXCEPT ![c][0].st = "off"]
  /\ UNCHANGED <<osStd, pipes, kind, old, rw, buf, wg, nw, wrote, result, failed, pre, called, ext>>

\* the goroutine writes its line at some moment after the action returned
LateWrite(c, t, s) ==
  /\ ~At(c, "f")
  /\ WriterWrite(c, t, s)

LateNext ==
  \/ Setup(1, Kinds)
  \/ \E s \in Stream, ch \in Chunks : ActWrite(1, s, ch)
  \/ \E t \in Tids : WriteStep(1, t)
  \/ ActGo(1, 1)
  \/ ActReturnEarly(1)
  \/ \E s \in Stream : LateWrite(1, 1, s)
  \/ Teardown(1)
  \/ Drain
LateSpec == Init /\ [][LateNext]_vars

\* ------------------------------------------------- claims: late writes
\* the bytes of the goroutines' lines; the action itself writes none of them
LateBytes == UNION {{Line(t)[i] : i \in 1..Len(Line(t))} : t \in Tids \ {0}}
ByAction(text) == SelectSeq(text, LAMBDA b : b \notin LateBytes)

\* C23 as stated: no byte that a goroutine the action started and did not
\* wait for writes after the action returned is in the returned text.
C23_NoLateBytes ==
  \A c \in Calls : HasResult(c) =>
    \A s \in Stream : \A i \in 1..Len(result[c][s]) : result[c][s][i] \notin LateBytes

\* C23: the returned text holds every byte the action wrote, in order; bytes
\* that a goroutine the action did not wait for writes after the action
\* returned appear in it only if they entered the pipe before the call closed
\* the write end: no byte enters a pipe whose write end is closed.
C23_LateBytesUntilClose ==
  /\ \A c \in Calls : HasResult(c) =>
       \A s \in CapturedSet(kind[c]) : ByAction(result[c][s]) = ByAction(wrote[c][s])
  /\ \A p \in 1..Len(pipes) :
       pipes[p].wclosed /\ pipes[p].drain = "done" => pipes[p].data = <<>>

C23_Witness ==
  /\ At(1, "returned")
  /\ kind[1] = "stdout"
  /\ result[1]["out"] = <<0>> \o Line(1)
  /\ thr[1][1].st = "done"

\* =========================================================================
\* The variant implementation of the capture functions
\* =========================================================================
VMaxPipes == 3                     \* pipes the variant's calls make in one run

\* the file a write to stream s goes to: the file of the value os.Stdout
\* (os.Stderr) points to
VDest(s)  == vfile[vstd[s]]
VAt(step) == vcall.step = step
VSingle   == vcall.kind \in {"stdout", "stderr"}
\* the stream of a single-stream call, and the stream statement i is about
VStream   == Captured(vcall.kind)[1]
VCur      == Captured(vcall.kind)[vcall.i]
VLast     == vcall.i = Len(Captured(vcall.kind))
VOthers   == <<capVars, httpVars, lifeVars, envVars>>

\* capture(t, os.Stdout, f): old := out;  the dual function:
\* oldout, olderr := os.Stdout, os.Stderr.  All of these copy pointers.
VBegin(k) ==
  /\ VAt("idle")
  /\ Len(vpipes) + Len(Captured(k)) <= VMaxPipes
  /\ vcall' = [NoVCall EXCEPT !.step = "pipe", !.kind = k, !.gap = vcall.gap,
                              !.pre = [s \in Stream |-> VDest(s)],
                              !.out = IF k = "both" THEN 0 ELSE vstd[Captured(k)[1]],
                              !.old = [s \in Stream |->
                                         IF s \in CapturedSet(k) THEN vstd[s] ELSE NoFile]]
  /\ UNCHANGED <<vstd, vfile, vpipes>>
  /\ UNCHANGED VOthers

\* r, w, err := os.Pipe()
VPipeOK ==
  /\ VAt("pipe")
  /\ vpipes' = Append(vpipes, [data |-> <<>>, wclosed |-> FALSE, drain |-> "none",
                               buf |-> <<>>, s |-> VCur])
  /\ vfile'  = Append(vfile, Len(vpipes) + 1)
  /\ vcall'  = [vcall EXCEPT !.w[VCur] = Len(vpipes) + 1,
                             !.i = IF VLast THEN 1 ELSE @ + 1,
                             !.step = IF VLast THEN "redirect" ELSE @]
  /\ UNCHANGED vstd
  /\ UNCHANGED VOthers

\* if err != nil { t.Fatal(err) }
VPipeFail ==
  /\ VAt("pipe")
  /\ vcall' = [vcall EXCEPT !.step = "fatal", !.i = 1]
  /\ UNCHANGED <<vstd, vfile, vpipes>>
  /\ UNCHANGED VOthers

\* capture: *out = *w, the os.File value out points to is overwritten;
\* the dual function: os.Stdout, os.Stderr = wOut, wErr, the pointers change
VRedirect ==
  /\ VAt("redirect")
  /\ IF VSingle
       THEN /\ vfile' = [vfile EXCEPT ![vcall.out] = vfile[WObj(vcall.w[VStream])]]
            /\ vcall' = [vcall EXCEPT !.step = "f"]
            /\ UNCHANGED vstd
       ELSE /\ vstd'  = [s \in Stream |-> WObj(vcall.w[s])]
            /\ vcall' = [vcall EXCEPT !.step = "go"]
            /\ UNCHANGED vfile
  /\ UNCHANGED vpipes
  /\ UNCHANGED VOthers

\* the dual function: both goroutines are started, wg.Wait() returns once
\* both have begun
VGo ==
  /\ VAt("go")
  /\ vpipes' = [p \in 1..Len(vpipes) |->
                  IF p \in {vcall.w[s] : s \in Stream}
                    THEN [vpipes[p] EXCEPT !.drain = "running"] ELSE vpipes[p]]
  /\ vcall' = [vcall EXCEPT !.step = "f"]
  /\ UNCHANGED <<vstd, vfile>>
  /\ UNCHANGED VOthers

\* ---- the action f
VOpen(f) == IsPipe(f) /\ ~vpipes[f].wclosed
\* the writes of an action: at most two
VWrites == {1, 2}
VWrite(s, chunk) ==
  /\ VAt("f")
  /\ vcall.rem = <<>>
  /\ vcall.nw < Cardinality(VWrites)
  /\ vcall' = [vcall EXCEPT !.nw = @ + 1,
                            !.rem  = IF VOpen(VDest(s)) THEN chunk ELSE <<>>,
                            !.remp = IF VOpen(VDest(s)) /\ chunk # <<>> THEN VDest(s)
                                     ELSE NoFile]
  /\ UNCHANGED <<vstd, vfile, vpipes>>
  /\ UNCHANGED VOthers

\* the write goes on while the pipe has room; nothing reads the pipe of
\* capture while f runs
VWriteStep ==
  LET p == vcall.remp
      n == Min(PipeCap - Len(vpipes[p].data), Len(vcall.rem))
  IN
  /\ vcall.rem # <<>>
  /\ n > 0
  /\ vpipes' = [vpipes EXCEPT ![p].data = @ \o SubSeq(vcall.rem, 1, n)]
  /\ vcall'  = [vcall EXCEPT !.rem = SubSeq(@, n + 1, Len(@)),
                             !.remp = IF n = Len(vcall.rem) THEN NoFile ELSE @]
  /\ UNCHANGED <<vstd, vfile>>
  /\ UNCHANGED VOthers

VActReturn ==
  /\ VAt("f")
  /\ vcall.rem = <<>>
  /\ vcall' = [vcall EXCEPT !.step = "close", !.i = 1]
  /\ UNCHANGED <<vstd, vfile, vpipes>>
  /\ UNCHANGED VOthers

\* f panics: no statement of the variant is deferred, the panic goes straight
\* on to the caller
VPanicStdRestored == [s \in Stream |-> IF vcall.old[s] # NoFile THEN vcall.old[s] ELSE vstd[s]]
VPanicStd == vstd
VActPanic ==
  /\ VAt("f")
  /\ vcall.rem = <<>>
  /\ vstd'  = VPanicStd
  /\ vcall' = [vcall EXCEPT !.step = "panicked", !.gap = @ \/ vcall.kind = "both"]
  /\ UNCHANGED <<vfile, vpipes>>
  /\ UNCHANGED VOthers

\* ---- after the action
\* w.Close()  (wOut.Close(), then wErr.Close())
VClose ==
  /\ VAt("close")
  /\ vpipes' = [vpipes EXCEPT ![vcall.w[VCur]].wclosed = TRUE]
  /\ vcall'  = [vcall EXCEPT !.i = IF VLast THEN 1 ELSE @ + 1,
                             !.step = IF VLast THEN "restore" ELSE @]
  /\ UNCHANGED <<vstd, vfile>>
  /\ UNCHANGED VOthers

\* the os.File value that "old" holds when capture restores: old is the
\* pointer out itself, so *old is whatever *out is now
VOldValueSaved == Orig(VStream)
VOldValue == vfile[vcall.old[VStream]]
\* capture: *out = *old;  the dual function: os.Stdout, os.Stderr = oldout, olderr
VRestore ==
  /\ VAt("restore")
  /\ IF VSingle
       THEN /\ vfile' = [vfile EXCEPT ![vcall.out] = VOldValue]
            /\ vcall' = [vcall EXCEPT !.step = "copy"]
            /\ UNCHANGED vstd
       ELSE /\ vstd'  = vcall.old
            /\ vcall' = [vcall EXCEPT !.step = "recv", !.i = 1]
            /\ UNCHANGED vfile
  /\ UNCHANGED vpipes
  /\ UNCHANGED VOthers

\* capture: io.Copy(&buf, r), one Read
VCopyRead ==
  LET p == vcall.w[VStream]
      n == Min(Len(vpipes[p].data), CopyBuf)
  IN
  /\ VAt("copy")
  /\ n > 0
  /\ vpipes' = [vpipes EXCEPT ![p].data = SubSeq(@, n + 1, Len(@))]
  /\ vcall'  = [vcall EXCEPT !.buf = @ \o SubSeq(vpipes[p].data, 1, n)]
  /\ UNCHANGED <<vstd, vfile>>
  /\ UNCHANGED VOthers

\* capture: Read returns io.EOF; return buf.String()
VCopyEOF ==
  LET p == vcall.w[VStream] IN
  /\ VAt("copy")
  /\ vpipes[p].data = <<>>
  /\ vpipes[p].wclosed
  /\ vcall' = [vcall EXCEPT !.step = "returned", !.result[VStream] = BufString(vcall.buf)]
  /\ UNCHANGED <<vstd, vfile, vpipes>>
  /\ UNCHANGED VOthers

\* the goroutines of the dual function: io.Copy(&buf, rOut), then outCh <- buf.String()
VDrainRead(p) ==
  LET n == Min(Len(vpipes[p].data), CopyBuf) IN
  /\ vpipes[p].drain = "running"
  /\ n > 0
  /\ vpipes' = [vpipes EXCEPT ![p].data = SubSeq(@, n + 1, Len(@)),
                              ![p].buf  = @ \o SubSeq(vpipes[p].data, 1, n)]
  /\ UNCHANGED <<vstd, vfile, vcall>>
  /\ UNCHANGED VOthers

VDrainEOF(p) ==
  /\ vpipes[p].drain = "running"
  /\ vpipes[p].data = <<>>
  /\ vpipes[p].wclosed
  /\ vpipes' = [vpipes EXCEPT ![p].drain = "sending"]
  /\ UNCHANGED <<vstd, vfile, vcall>>
  /\ UNCHANGED VOthers

\* stdout, stderr := <-outCh, <-errCh: the channels are unbuffered, a receive
\* completes when the goroutine is at its send
VRecv ==
  LET p == vcall.w[VCur] IN
  /\ VAt("recv")
  /\ vpipes[p].drain = "sending"
  /\ vpipes' = [vpipes EXCEPT ![p].drain = "done", ![p].buf = <<>>]
  /\ vcall'  = [vcall EXCEPT !.result[VCur] = BufString(vpipes[p].buf),
                             !.i = IF VLast THEN 1 ELSE @ + 1,
                             !.step = IF VLast THEN "returned" ELSE @]
  /\ UNCHANGED <<vstd, vfile>>
  /\ UNCHANGED VOthers

VEnded == vcall.step \in {"returned", "panicked", "fatal"}
\* the test is over, the goroutine runs the next test; the flag that a dual
\* call was left by a panic stays
VFinish ==
  /\ VEnded
  /\ vcall' = [NoVCall EXCEPT !.gap = vcall.gap]
  /\ UNCHANGED <<vstd, vfile, vpipes>>
  /\ UNCHANGED VOthers

VSetup    == VPipeOK \/ VPipeFail \/ VRedirect \/ VGo
\* what the action writes: a byte, and more bytes than the pipe holds
VChunks   == {<<0>>, <<255, 0>>}
VAction   == (\E s \in Stream, ch \in VChunks : VWrite(s, ch)) \/ VWriteStep
VTeardown == VClose \/ VRestore \/ VCopyRead \/ VCopyEOF \/ VRecv
VDrain    == \E p \in 1..Len(vpipes) : VDrainRead(p) \/ VDrainEOF(p)

\* tests calling the variant's functions one after another; every statement
\* that can run does run in the end
VariantNext ==
  \/ \E k \in Kinds : VBegin(k)
  \/ VSetup
  \/ VAction
  \/ VActReturn
  \/ VActPanic
  \/ VTeardown
  \/ VDrain
  \/ VFinish
VariantSpec ==
  /\ Init /\ [][VariantNext]_vars
  /\ WF_vars(VSetup)
  /\ WF_vars(VWriteStep)
  /\ WF_vars(VActReturn \/ VActPanic)
  /\ WF_vars(VTeardown)
  /\ WF_vars(VDrain)

\* ------------------------------------------------- claims: the variant
\* C24: the variant's capture, called by its CaptureStdout and CaptureStderr,
\* terminates for every action, also one that writes more bytes than the pipe
\* holds: once the action runs, the call comes to an end.
C24_VariantTerminates == (VSingle /\ VAt("f")) ~> VEnded

\* C25: after the variant's capture has returned normally, the stream it was
\* given refers again to the destination it had before the call, so later
\* writes to it do not go to the closed pipe.
C25_VariantRestored ==
  VSingle /\ VAt("returned") => VDest(VStream) = vcall.pre[VStream]

\* C26: when the action of the variant's CaptureStdoutAndStderr panics nothing
\* is restored: as the panic reaches the caller os.Stdout and os.Stderr are the
\* write ends of the call's pipes, still open, and in no later test does either
\* stream refer to its original destination again.
C26_PanicGap ==
  /\ vcall.kind = "both" /\ VAt("panicked") =>
       \A s \in Stream : /\ vstd[s] = WObj(vcall.w[s])
                         /\ VDest(s) = vcall.w[s]
                         /\ VOpen(VDest(s))
  /\ vcall.gap => \A s \in Stream : VDest(s) # Orig(s)

C26_Witness ==
  /\ vcall.gap
  /\ vcall.kind = "stdout"
  /\ VAt("returned")
  /\ vcall.result["out"] = <<0>>
  /\ VDest("out") = 3
  /\ VDest("err") = 2

\* =========================================================================
\* A capture call made by the action of another capture call
\* =========================================================================
\* the inner call is not running: the outer action is at its own statements
InnerQuiet == pc[2].step \in {"idle", "returned"}

\* call 1 is the outer CaptureStdout; its action writes, calls CaptureStdout
\* (call 2) once, and writes again
NestedNext ==
  \/ Setup(1, {"stdout"})
  \/ InnerQuiet /\ \E ch \in Chunks : ActWrite(1, "out", ch)
  \/ WriteStep(1, 0)
  \/ InnerQuiet /\ ActReturn(1)
  \/ At(1, "f") /\ thr[1][0].st = "idle" /\ Setup(2, {"stdout"})
  \/ \E ch \in Chunks : ActWrite(2, "out", ch)
  \/ WriteStep(2, 0)
  \/ ActReturn(2)
  \/ Teardown(1)
  \/ Teardown(2)
  \/ Drain
NestedSpec == Init /\ [][NestedNext]_vars

\* ------------------------------------------------ claims: nested calls
\* C27: when the action of an outer CaptureStdout calls CaptureStdout, the
\* inner call returns exactly what the inner action wrote, the outer call
\* returns exactly what was written to stdout outside the inner call, in order,
\* the inner call hands stdout back to the outer pipe, and after the outer call
\* os.Stdout is the original destination.
C27_Nested ==
  /\ HasResult(2) => result[2]["out"] = wrote[2]["out"]
  /\ HasResult(1) => result[1]["out"] = wrote[1]["out"]
  /\ At(2, "returned") /\ At(1, "f") => osStd["out"] = rw[1]["out"]
  /\ At(1, "returned") => osStd = OrigStd

C27_Witness ==
  /\ At(1, "returned")
  /\ At(2, "returned")
  /\ result[1]["out"] = <<0, 255>>
  /\ result[2]["out"] = <<255, 0>>
  /\ osStd = OrigStd

\* ------------------------------------------- claims: recording and forwarding
\* the handler has not reached the end of captor.add for its request
BeforeStore(h) == hs[h].pc \in {"build", "lock", "load", "store"}
Stored(h) == \E i \in 1..CaptorLen : GetRequestsElems[i] = RecordOf(hs[h].req)

\* C28: the handler stores the record before it invokes the downstream handler:
\* whenever the downstream handler is about to run or has run, the captor holds
\* the record of the request being served, and the captor holds one record for
\* every request that is past captor.add; with a nil downstream handler the
\* request is recorded all the same and nothing is forwarded.
C28_RecordedBeforeForward ==
  /\ CaptorLen = served.total - Cardinality({h \in Handlers : BeforeStore(h)})
  /\ \A h \in Handlers :
       /\ hs[h].pc = "next" \/ hs[h].fwd => Stored(h)
       /\ hs[h].fwd => captor.next
       /\ ~captor.next /\ hs[h].pc = "done" =>
            /\ Stored(h)
            /\ ~hs[h].fwd
            /\ hs[h].seen = <<>>

C28_Witness ==
  /\ captor.next
  /\ hs[1].pc = "next"
  /\ hs[1].req = 3
  /\ ~hs[1].fwd
  /\ hs[2].pc = "build"
  /\ CaptorLen = 1
  /\ GetRequestsElems[1] = RecordOf(3)

\* ------------------------------------- claims: several Mongo containers
\* what os.Getenv("MONGO_TEST") returns in environment e
ValueIn(e) == IF e.set THEN e.val ELSE ""
Uris == {Uri(m) : m \in Containers}
\* the container created first: MONGO_TEST held no container's URI then
First(m) == mongo[m].before.val \notin Uris
AllClosed == \A m \in Containers : mongo[m].pc = "closed" /\ mongo[m].ret = "closeNil"

\* C29: once every created Mongo container has been closed with a nil error, in
\* whatever order, MONGO_TEST has the value it had before the first container
\* was created, and it never holds the URI of a container that Close has
\* terminated.
C29_EnvAfterAllClosed ==
  /\ AllClosed => \A m \in Containers : First(m) => ValueIn(env) = ValueIn(mongo[m].before)
  /\ \A m \in Containers : mongo[m].pc = "closed" => ValueIn(env) # Uri(m)

\* the same for containers closed in the reverse order of their creation, the
\* order deferred Close calls give
C29_Witness ==
  /\ AllClosed
  /\ First(1)
  /\ mongo[1].before = [set |-> TRUE, val |-> "original_value"]
  /\ env = [set |-> TRUE, val |-> "original_value"]

\* =========================================================================
\* The Postgres and MySQL test containers: containers/postgres.go, mysql.go
\* =========================================================================
SqlOutcomes == {"ok", "start", "host", "port"}
\* the body both constructors share: GenericContainer, Host, MappedPort; the
\* error of container.Terminate on a failure path is discarded
SqlTestContainerWithDBE(k, outcome, termOK) ==
  /\ db[k].pc = "none"
  /\ LET started == [NoDb EXCEPT !.running = TRUE]
     IN CASE outcome = "start" ->
               db' = [db EXCEPT ![k] = [NoDb EXCEPT !.pc = "failed", !.ret = "err"]]
          [] outcome \in {"host", "port"} ->
               db' = [db EXCEPT ![k] = [Terminated(started, termOK) EXCEPT
                                          !.pc = "failed", !.ret = "err"]]
          [] outcome = "ok" ->
               /\ termOK
               /\ db' = [db EXCEPT ![k] = [started EXCEPT !.pc = "open", !.ret = "nil"]]
  /\ UNCHANGED <<env, mongo>>
  /\ UNCHANGED <<capVars, variantVars, httpVars, lifeVars>>

NewPostgresTestContainerWithDBE(outcome, termOK) ==
  SqlTestContainerWithDBE("postgres", outcome, termOK)
NewMySQLTestContainerWithDBE(outcome, termOK) ==
  SqlTestContainerWithDBE("mysql", outcome, termOK)

\* ---- Close: return Container.Terminate(ctx)
SqlClose(k, termOK) ==
  /\ db[k].pc = "open"
  /\ db' = [db EXCEPT ![k] = [Terminated(@, termOK) EXCEPT
                                !.pc = IF termOK THEN "closed" ELSE "open",
                                !.ret = IF termOK THEN "closeNil" ELSE "closeErr"]]
  /\ db[k].terminates < 2
  /\ UNCHANGED <<env, mongo>>
  /\ UNCHANGED <<capVars, variantVars, httpVars, lifeVars>>

\* one Mongo container beside one container of each SQL kind
ContainersNext ==
  \/ \E o \in NewOutcomes, termOK \in BOOLEAN : NewMongoTestContainerE(1, o, termOK)
  \/ \E o \in CloseOutcomes : MongoClose(1, o)
  \/ \E o \in SqlOutcomes, termOK \in BOOLEAN : NewPostgresTestContainerWithDBE(o, termOK)
  \/ \E o \in SqlOutcomes, termOK \in BOOLEAN : NewMySQLTestContainerWithDBE(o, termOK)
  \/ \E k \in DbKinds, termOK \in BOOLEAN : SqlClose(k, termOK)
ContainersSpec == Init /\ [][ContainersNext]_vars

\* ------------------------------------ claims: failures of a constructor
\* C30 as stated: after a constructor returns an error it has returned a nil
\* container and no container it started is left running.
C30_NoneLeftRunning ==
  /\ \A m \in Containers : mongo[m].ret = "err" =>
       mongo[m].pc = "failed" /\ ~mongo[m].running
  /\ \A k \in DbKinds : db[k].ret = "err" => db[k].pc = "failed" /\ ~db[k].running

\* C30, what the constructors do guarantee: after an error return the
\* container returned is nil, and if the container was started then Terminate
\* has been called on it once; it is left running only if that Terminate failed.
C30_TerminateCalled ==
  /\ \A m \in Containers : mongo[m].ret = "err" =>
       mongo[m].pc = "failed" /\ mongo[m].terminates <= 1
         /\ (mongo[m].running => mongo[m].terminates = 1)
  /\ \A k \in DbKinds : db[k].ret = "err" =>
       db[k].pc = "failed" /\ db[k].terminates <= 1
         /\ (db[k].running => db[k].terminates = 1)

C30_Witness ==
  /\ mongo[1].ret = "err" /\ mongo[1].terminates = 1 /\ ~mongo[1].running
  /\ db["postgres"].ret = "err" /\ db["postgres"].terminates = 1 /\ ~db["postgres"].running
  /\ db["mysql"].ret = "err" /\ db["mysql"].terminates = 1 /\ ~db["mysql"].running

====
